---------------------------- MODULE Spec2Model ----------------------------
(***************************************************************************)
(* pycryptosat: the Python binding of the CryptoMiniSat engine             *)
(* (python/src/pycryptosat.cpp).  The model covers the marshalling of      *)
(* literals and clauses, the growth of the variable space, the two bulk    *)
(* ingestion paths, solve with assumptions and msolve_selected.            *)
(*                                                                         *)
(* The engine itself (class SATSolver) is a collaborator whose code is not *)
(* part of the binding; it is modelled from its contract: a variable       *)
(* count, the committed clauses and XOR constraints in commit order, and a *)
(* solve that answers l_True with a model, l_False or l_Undef.             *)
(***************************************************************************)
EXTENDS Integers, Sequences, FiniteSets, TLC

VARIABLES
    cmsat,      \* Solver.cmsat: the engine instance behind the Solver object
    call,       \* the API call in progress or last completed: [op, ...arguments]
    ret,        \* what that call returned or raised (a Python value)
    res,        \* lbool res of the handler: the last engine solve result of the call
    nSolves,    \* number of engine solve() invocations made by the call so far
    ms,         \* the frame of msolve_selected while its loop runs
    GIL,        \* the thread holding the interpreter's global lock, 0 when free
    thread      \* where each caller thread sharing the Solver object stands

vars == <<cmsat, call, ret, res, nSolves, ms, GIL, thread>>

---------------------------------------------------------------------------
(* Machine integers of the build: std::numeric_limits<int>.                *)
INT_MAX == 2147483647
INT_MIN == -INT_MAX - 1

(* C++ integer division by a positive b truncates toward zero. *)
CDiv(a, b) == IF a >= 0 \/ a % b = 0 THEN a \div b ELSE (a \div b) + 1

Abs(x) == IF x < 0 THEN -x ELSE x

Max(a, b) == IF a >= b THEN a ELSE b

---------------------------------------------------------------------------
(* Python values crossing the boundary, as tagged records.                 *)
PyNone == [t |-> "None"]
PyBool(b) == [t |-> "bool", v |-> b]
PyInt(n) == [t |-> "int", v |-> n]
PyStr(s) == [t |-> "str", v |-> s]
PyTuple(q) == [t |-> "tuple", v |-> q]
PyList(q) == [t |-> "list", v |-> q]
PyRaise(e, msg) == [t |-> "raise", v |-> e, msg |-> msg]

(* A slot of a fresh PyTuple_New tuple that was never set, or an omitted   *)
(* optional argument: the C NULL pointer.                                  *)
PyNull == [t |-> "NULL"]

(* array.array(typecode, items) *)
PyArray(typecode, q) == [t |-> "array", typecode |-> typecode, v |-> q]

(* A Python list of ints from a sequence of integers. *)
PyInts(s) == PyList([i \in 1..Len(s) |-> PyInt(s[i])])

(* PyObject_GetIter succeeds. *)
PyIterable(x) == x.t \in {"list", "tuple"}

(* IS_INT(x): PyLong_Check. *)
IS_INT(x) == x.t = "int"

(* lbool *)
l_True == "l_True"
l_False == "l_False"
l_Undef == "l_Undef"
lbool == {l_True, l_False, l_Undef}

(* No engine solve was made yet by the call. *)
NoRes == "none"

(* No clause was banned by the iteration. *)
NoBan == "none"

(* Lit(var, sign) *)
Lit(var, sign) == [var |-> var, sign |-> sign]

---------------------------------------------------------------------------
(* The engine (SATSolver), from its contract.                              *)

(* SATSolver::nVars *)
nVars(e) == e.nVars

(* SATSolver::new_vars(n): n more variables. *)
new_vars(e, n) == [e EXCEPT !.nVars = @ + n, !.model = <<>>]

(* SATSolver::new_var() *)
new_var(e) == new_vars(e, 1)

(* SATSolver::add_clause(lits): the clause is committed, literal order      *)
(* kept.  The engine requires every variable to exist already; fault        *)
(* records that it was handed one that does not.                            *)
add_clause(e, lits) ==
    [e EXCEPT !.clauses = Append(@, lits), !.model = <<>>,
              !.fault = @ \/ \E i \in 1..Len(lits) : lits[i].var >= e.nVars]

(* SATSolver::add_xor_clause(vars, rhs) *)
add_xor_clause(e, xvars, rhs) ==
    [e EXCEPT !.xors = Append(@, [vars |-> xvars, rhs |-> rhs]), !.model = <<>>,
              !.fault = @ \/ \E i \in 1..Len(xvars) : xvars[i] >= e.nVars]

(* A model: one lbool per variable. *)
Models(n) == [1..n -> lbool]

(* The literal is true under the model. *)
LitTrue(m, l) == m[l.var + 1] = (IF l.sign THEN l_False ELSE l_True)

RECURSIVE CountTrue(_, _, _)
CountTrue(m, xvars, i) ==
    IF i > Len(xvars) THEN 0
    ELSE (IF m[xvars[i] + 1] = l_True THEN 1 ELSE 0) + CountTrue(m, xvars, i + 1)

XorHolds(m, x) ==
    /\ \A i \in 1..Len(x.vars) : m[x.vars[i] + 1] # l_Undef
    /\ (CountTrue(m, x.vars, 1) % 2 = 1) = x.rhs

(* m satisfies every committed constraint and every assumption. *)
Satisfies(e, m, assumps) ==
    /\ \A i \in 1..Len(e.clauses) :
          \E j \in 1..Len(e.clauses[i]) : LitTrue(m, e.clauses[i][j])
    /\ \A i \in 1..Len(e.xors) : XorHolds(m, e.xors[i])
    /\ \A i \in 1..Len(assumps) : LitTrue(m, assumps[i])

(* The variable occurs in a committed clause or XOR constraint. *)
Constrained(e, var) ==
    \/ \E i \in 1..Len(e.clauses) : \E j \in 1..Len(e.clauses[i]) : e.clauses[i][j].var = var
    \/ \E i \in 1..Len(e.xors) : \E j \in 1..Len(e.xors[i].vars) : e.xors[i].vars[j] = var

(* The models solve may produce: they satisfy the constraints and the      *)
(* assumptions, and leave unassigned only variables that no committed      *)
(* constraint mentions.                                                    *)
SatModels(e, assumps) ==
    {m \in Models(e.nVars) :
        /\ \A i \in 1..e.nVars : m[i] = l_Undef => ~Constrained(e, i - 1)
        /\ Satisfies(e, m, assumps)}

(* An empty clause was committed: the engine is no longer okay(). *)
HasEmptyClause(e) == \E i \in 1..Len(e.clauses) : e.clauses[i] = <<>>

(* SATSolver::solve(assumptions): the possible answers [res, model].  The   *)
(* answer is l_Undef only when a time or conflict limit was configured and  *)
(* the engine is still okay(); the assumptions are not retained.            *)
answers_of(e, sat) ==
    (IF e.limited /\ ~HasEmptyClause(e) THEN {[res |-> l_Undef, model |-> <<>>]} ELSE {})
    \cup (IF sat = {} THEN {[res |-> l_False, model |-> <<>>]}
          ELSE {[res |-> l_True, model |-> m] : m \in sat})

solve_answers(e, assumps) == answers_of(e, SatModels(e, assumps))

(* The engine after solve answered a: get_model() is the answer's model. *)
solved(e, a) == [e EXCEPT !.model = a.model]

---------------------------------------------------------------------------
(* Literal decoding.                                                       *)

convert_lit_to_sign_and_var(lit) ==
    IF ~IS_INT(lit) THEN [ok |-> FALSE, err |-> "TypeError", msg |-> "integer expected"]
    ELSE IF lit.v = 0
        THEN [ok |-> FALSE, err |-> "ValueError", msg |-> "non-zero integer expected"]
    ELSE IF lit.v > CDiv(INT_MAX, 2) \/ lit.v < CDiv(INT_MIN, 2)
        THEN [ok |-> FALSE, err |-> "ValueError", msg |-> "integer is too small or too large"]
    ELSE [ok |-> TRUE, var |-> Abs(lit.v) - 1, sign |-> (lit.v < 0)]

(* Mutant: max_var follows the last literal instead of the largest one. *)
RECURSIVE parse_clause_loop_LastLiteral(_, _, _, _)
parse_clause_loop_LastLiteral(clause, i, lits, max_var) ==
    IF i > Len(clause) THEN [ok |-> TRUE, lits |-> lits, max_var |-> max_var]
    ELSE LET c == convert_lit_to_sign_and_var(clause[i]) IN
         IF ~c.ok THEN [ok |-> FALSE, err |-> c.err, msg |-> c.msg, lits |-> lits]
         ELSE parse_clause_loop_LastLiteral(clause, i + 1,
                                            Append(lits, Lit(c.var, c.sign)), c.var)

(* The while loop of parse_clause from element i on: lits and max_var so   *)
(* far; it stops at the first literal that does not convert.               *)
RECURSIVE parse_clause_loop(_, _, _, _)
parse_clause_loop(clause, i, lits, max_var) ==
    IF i > Len(clause) THEN [ok |-> TRUE, lits |-> lits, max_var |-> max_var]
    ELSE LET c == convert_lit_to_sign_and_var(clause[i]) IN
         IF ~c.ok THEN [ok |-> FALSE, err |-> c.err, msg |-> c.msg, lits |-> lits]
         ELSE parse_clause_loop(clause, i + 1, Append(lits, Lit(c.var, c.sign)),
                                Max(c.var, max_var))

(* Mutant: the variable space grows to one variable less than needed. *)
parse_clause_grow_OneShort(e, p) ==
    IF ~p.ok THEN [ok |-> FALSE, err |-> p.err, msg |-> p.msg, e |-> e, lits |-> p.lits]
    ELSE IF p.lits # <<>> /\ p.max_var > nVars(e)
        THEN [ok |-> TRUE, e |-> new_vars(e, p.max_var - nVars(e)), lits |-> p.lits]
    ELSE [ok |-> TRUE, e |-> e, lits |-> p.lits]

(* The end of parse_clause: after a loop p that converted every literal,   *)
(* the variable space grows once, to the largest variable of the clause.   *)
parse_clause_grow(e, p) ==
    IF ~p.ok THEN [ok |-> FALSE, err |-> p.err, msg |-> p.msg, e |-> e, lits |-> p.lits]
    ELSE IF p.lits # <<>> /\ p.max_var >= nVars(e)
        THEN [ok |-> TRUE, e |-> new_vars(e, p.max_var - nVars(e) + 1), lits |-> p.lits]
    ELSE [ok |-> TRUE, e |-> e, lits |-> p.lits]

(* parse_clause(self, clause, lits): lits is appended to. *)
parse_clause(e, clause, lits0) ==
    IF ~PyIterable(clause)
    THEN [ok |-> FALSE, err |-> "TypeError", msg |-> "iterable object expected",
          e |-> e, lits |-> lits0]
    ELSE parse_clause_grow(e, parse_clause_loop(clause.v, 1, lits0, 0))

(* Mutant: an empty clause is skipped instead of committed. *)
_add_clause_commit_SkipEmpty(p) ==
    IF ~p.ok THEN [ok |-> FALSE, err |-> p.err, msg |-> p.msg, e |-> p.e]
    ELSE IF p.lits = <<>> THEN [ok |-> TRUE, e |-> p.e]
    ELSE [ok |-> TRUE, e |-> add_clause(p.e, p.lits)]

(* The end of _add_clause: the parsed clause is committed. *)
_add_clause_commit(p) ==
    IF ~p.ok THEN [ok |-> FALSE, err |-> p.err, msg |-> p.msg, e |-> p.e]
    ELSE [ok |-> TRUE, e |-> add_clause(p.e, p.lits)]

(* _add_clause(self, clause): tmp_cl_lits is cleared, the clause parsed    *)
(* into it and committed.                                                  *)
_add_clause(e, clause) == _add_clause_commit(parse_clause(e, clause, <<>>))

(* What a handler leaves behind: the engine and the value returned, None   *)
(* on success and the exception raised otherwise.                          *)
Outcome(a) == [e |-> a.e, ret |-> IF a.ok THEN PyNone ELSE PyRaise(a.err, a.msg)]

(* add_clause(clause) *)
add_clause_handler(e, clause) == Outcome(_add_clause(e, clause))

---------------------------------------------------------------------------
(* The flat-buffer path.                                                   *)

(* (long) array[k], zero-based; a read at k >= array_length is outside the *)
(* buffer and yields whatever lies there (oob).                            *)
ArrayRead(array, k, oob) == IF k < Len(array) THEN array[k + 1] ELSE oob

(* The inner for loop of _add_clauses_from_array: scans one run of         *)
(* non-zero values from position k, whose value val was already read.      *)
RECURSIVE array_inner_loop(_, _, _, _, _, _, _)
array_inner_loop(array, k, val, lits, max_var, oob, reads) ==
    IF ~(k < Len(array) /\ val # 0)
    THEN [ok |-> TRUE, k |-> k, lits |-> lits, max_var |-> max_var, reads |-> reads]
    ELSE IF val > CDiv(INT_MAX, 2) \/ val < CDiv(INT_MIN, 2)
    THEN [ok |-> FALSE, err |-> "ValueError", msg |-> "integer is too small or too large",
          reads |-> reads]
    ELSE array_inner_loop(array, k + 1, ArrayRead(array, k + 1, oob),
                          Append(lits, Lit(Abs(val) - 1, val < 0)),
                          Max(Abs(val) - 1, max_var), oob, reads \cup {k + 1})

(* Mutant: an empty run is committed as an empty clause. *)
array_commit_EmptyRun(e, r) ==
    IF r.lits # <<>> /\ r.max_var >= nVars(e)
        THEN add_clause(new_vars(e, r.max_var - nVars(e) + 1), r.lits)
    ELSE add_clause(e, r.lits)

(* The end of the outer loop's body: a non-empty run grows the space to    *)
(* its largest variable and is committed; an empty run commits nothing.    *)
array_commit(e, r) ==
    IF r.lits = <<>> THEN e
    ELSE IF r.max_var >= nVars(e)
        THEN add_clause(new_vars(e, r.max_var - nVars(e) + 1), r.lits)
    ELSE add_clause(e, r.lits)

(* The outer for loop of _add_clauses_from_array from position k on;       *)
(* array_outer_next continues after the inner loop returned r.             *)
RECURSIVE array_outer_loop(_, _, _, _, _, _)
RECURSIVE array_outer_next(_, _, _, _)
array_outer_loop(e, array, k, val, oob, reads) ==
    IF ~(k < Len(array)) THEN [ok |-> TRUE, e |-> e, reads |-> reads]
    ELSE array_outer_next(e, array, oob, array_inner_loop(array, k, val, <<>>, 0, oob, reads))

array_outer_next(e, array, oob, r) ==
    IF ~r.ok THEN [ok |-> FALSE, err |-> r.err, msg |-> r.msg, e |-> e, reads |-> r.reads]
    ELSE array_outer_loop(array_commit(e, r), array, r.k + 1,
                          ArrayRead(array, r.k + 1, oob), oob, r.reads \cup {r.k + 1})

(* Mutant: the check of the terminating zero is missing. *)
_add_clauses_from_array_NoTerminatorCheck(e, array, oob) ==
    IF Len(array) = 0 THEN [ok |-> TRUE, e |-> e, reads |-> {}]
    ELSE array_outer_loop(e, array, 0, array[1], oob, {0})

(* _add_clauses_from_array(self, array_length, array); reads is the set of *)
(* zero-based positions of the buffer the scan read.                       *)
_add_clauses_from_array(e, array, oob) ==
    IF Len(array) = 0 THEN [ok |-> TRUE, e |-> e, reads |-> {}]
    ELSE IF array[Len(array)] # 0
    THEN [ok |-> FALSE, err |-> "ValueError", msg |-> "last clause not terminated by zero",
          e |-> e, reads |-> {Len(array) - 1}]
    ELSE array_outer_loop(e, array, 0, array[1], oob, {Len(array) - 1, 0})

(* _check_array_typecode *)
_check_array_typecode(clauses) == clauses.typecode \in {"i", "l", "q"}

(* add_clauses_array: the typecode check, then the scan. *)
add_clauses_array(e, clauses, oob) ==
    IF ~_check_array_typecode(clauses)
    THEN [ok |-> FALSE, err |-> "ValueError", msg |-> "invalid clause array", e |-> e,
          reads |-> {}]
    ELSE _add_clauses_from_array(e, clauses.v, oob)

---------------------------------------------------------------------------
(* The bulk sequence-of-clauses path.                                      *)

(* Mutant: a rejected clause does not stop the loop. *)
RECURSIVE add_clauses_loop(_, _, _)
add_clauses_next_Continue(a, items, i) == add_clauses_loop(a.e, items, i + 1)

(* The while loop of add_clauses over the iterator, from clause i on;      *)
(* add_clauses_next continues after _add_clause returned a.                *)
RECURSIVE add_clauses_next(_, _, _)
add_clauses_loop(e, items, i) ==
    IF i > Len(items) THEN [ok |-> TRUE, e |-> e]
    ELSE add_clauses_next(_add_clause(e, items[i]), items, i)

add_clauses_next(a, items, i) == IF ~a.ok THEN a ELSE add_clauses_loop(a.e, items, i + 1)

(* Mutant: max_var is taken as a variable index, growing one too far. *)
add_clauses_pregrow_OneTooFar(e, max_var) ==
    IF max_var >= nVars(e) THEN new_vars(e, max_var - nVars(e) + 1) ELSE e

(* The pre-growth of add_clauses to the declared max_var. *)
add_clauses_pregrow(e, max_var) ==
    IF max_var > nVars(e) THEN new_vars(e, max_var - nVars(e)) ELSE e

(* add_clauses after the pre-growth: the array form or the iterable form. *)
add_clauses_dispatch(g, clauses, oob) ==
    IF clauses.t = "array" THEN Outcome(add_clauses_array(g, clauses, oob))
    ELSE IF ~PyIterable(clauses)
        THEN [e |-> g, ret |-> PyRaise("TypeError", "iterable object expected")]
    ELSE Outcome(add_clauses_loop(g, clauses.v, 1))

(* add_clauses(clauses, max_var=0) *)
add_clauses(e, clauses, max_var, oob) ==
    add_clauses_dispatch(add_clauses_pregrow(e, max_var), clauses, oob)

---------------------------------------------------------------------------
(* XOR ingestion.                                                          *)

(* The for loop of parse_xor_clause growing the space one variable at a    *)
(* time: new_var() for i = nVars() .. var.                                 *)
RECURSIVE grow_one_by_one(_, _)
grow_one_by_one(e, var) == IF var >= nVars(e) THEN grow_one_by_one(new_var(e), var) ELSE e

(* The while loop of parse_xor_clause from element i on. *)
RECURSIVE parse_xor_clause_loop(_, _, _, _)
parse_xor_clause_loop(e, clause, i, xvars) ==
    IF i > Len(clause) THEN [ok |-> TRUE, e |-> e, vars |-> xvars]
    ELSE LET c == convert_lit_to_sign_and_var(clause[i]) IN
         IF ~c.ok THEN [ok |-> FALSE, err |-> c.err, msg |-> c.msg, e |-> e]
         ELSE IF c.sign
             THEN [ok |-> FALSE, err |-> "ValueError",
                   msg |-> "XOR clause must contiain only positive variables", e |-> e]
         ELSE parse_xor_clause_loop(grow_one_by_one(e, c.var), clause, i + 1,
                                    Append(xvars, c.var))

(* parse_xor_clause(self, clause, vars) *)
parse_xor_clause(e, clause) ==
    IF ~PyIterable(clause)
    THEN [ok |-> FALSE, err |-> "TypeError", msg |-> "iterable object expected", e |-> e]
    ELSE parse_xor_clause_loop(e, clause.v, 1, <<>>)

(* The end of add_xor_clause: the parsed constraint is committed. *)
add_xor_clause_commit(p, rhs) ==
    IF ~p.ok THEN [e |-> p.e, ret |-> PyRaise(p.err, p.msg)]
    ELSE [e |-> add_xor_clause(p.e, p.vars, rhs.v), ret |-> PyNone]

(* add_xor_clause(xor_clause, rhs) *)
add_xor_clause_handler(e, clause, rhs) ==
    IF rhs.t # "bool" THEN [e |-> e, ret |-> PyRaise("TypeError", "rhs must be boolean")]
    ELSE add_xor_clause_commit(parse_xor_clause(e, clause), rhs)

---------------------------------------------------------------------------
(* Solution rendering.                                                     *)

(* The Python value get_solution stores for one lbool. *)
lbool_to_py(v) ==
    IF v = l_True THEN PyBool(TRUE) ELSE IF v = l_False THEN PyBool(FALSE) ELSE PyNone

(* get_solution(cmsat): the dense tuple of nVars()+1 slots. *)
get_solution(e) ==
    PyTuple([i \in 1..(nVars(e) + 1) |->
                IF i = 1 THEN PyNone ELSE lbool_to_py(e.model[i - 1])])

(* get_raw_solution(cmsat): a tuple of nVars() slots; slot var is set to   *)
(* (var+1)*sign when the variable is assigned and is left unset otherwise. *)
get_raw_solution(e) ==
    PyTuple([i \in 1..nVars(e) |->
                IF e.model[i] # l_Undef
                THEN PyInt(i * (IF e.model[i] = l_True THEN 1 ELSE -1))
                ELSE PyNull])

---------------------------------------------------------------------------
(* solve with assumptions.                                                 *)

(* Mutant: a literal of an unknown variable is dropped instead of          *)
(* rejected.                                                               *)
RECURSIVE parse_assumption_lits_loop_NoCheck(_, _, _, _)
parse_assumption_lits_loop_NoCheck(e, assumptions, i, lits) ==
    IF i > Len(assumptions) THEN [ok |-> TRUE, lits |-> lits]
    ELSE LET c == convert_lit_to_sign_and_var(assumptions[i]) IN
         IF ~c.ok THEN [ok |-> FALSE, err |-> c.err, msg |-> c.msg]
         ELSE parse_assumption_lits_loop_NoCheck(e, assumptions, i + 1,
                 IF c.var >= nVars(e) THEN lits ELSE Append(lits, Lit(c.var, c.sign)))

(* The while loop of parse_assumption_lits from element i on. *)
RECURSIVE parse_assumption_lits_loop(_, _, _, _)
parse_assumption_lits_loop(e, assumptions, i, lits) ==
    IF i > Len(assumptions) THEN [ok |-> TRUE, lits |-> lits]
    ELSE LET c == convert_lit_to_sign_and_var(assumptions[i]) IN
         IF ~c.ok THEN [ok |-> FALSE, err |-> c.err, msg |-> c.msg]
         ELSE IF c.var >= nVars(e)
             THEN [ok |-> FALSE, err |-> "ValueError", msg |-> "variable not used in clauses"]
         ELSE parse_assumption_lits_loop(e, assumptions, i + 1,
                                         Append(lits, Lit(c.var, c.sign)))

(* parse_assumption_lits(assumptions, cmsat, assumption_lits) *)
parse_assumption_lits(assumptions, e) ==
    IF ~PyIterable(assumptions)
    THEN [ok |-> FALSE, err |-> "TypeError", msg |-> "iterable object expected"]
    ELSE parse_assumption_lits_loop(e, assumptions.v, 1, <<>>)

(* The start of solve: assumption_lits stays empty when the argument was   *)
(* omitted (PyNull), and is parsed from it otherwise.                      *)
solve_assumption_lits(assumptions, e) ==
    IF assumptions = PyNull THEN [ok |-> TRUE, lits |-> <<>>]
    ELSE parse_assumption_lits(assumptions, e)

(* Mutant: the assumptions are committed as unit clauses before solving. *)
RECURSIVE add_units(_, _, _)
add_units(e, lits, i) ==
    IF i > Len(lits) THEN e ELSE add_units(add_clause(e, <<lits[i]>>), lits, i + 1)

solve_call_Persist(e, assumption_lits) ==
    {[e |-> solved(add_units(e, assumption_lits, 1), a), res |-> a.res] :
        a \in solve_answers(e, assumption_lits)}

(* res = self->cmsat->solve(&assumption_lits): the engine after the call  *)
(* and its answer, for each answer the engine may give.                    *)
solve_call(e, assumption_lits) ==
    {[e |-> solved(e, a), res |-> a.res] : a \in solve_answers(e, assumption_lits)}

(* Mutant: an unknown answer is reported as unsatisfiable. *)
solve_result_UndefAsFalse(e, r) ==
    IF r = l_True THEN PyTuple(<<PyBool(TRUE), get_solution(e)>>)
    ELSE PyTuple(<<PyBool(FALSE), PyNone>>)

(* The result tuple solve builds from res and the engine's model. *)
solve_result(e, r) ==
    IF r = l_True THEN PyTuple(<<PyBool(TRUE), get_solution(e)>>)
    ELSE IF r = l_False THEN PyTuple(<<PyBool(FALSE), PyNone>>)
    ELSE PyTuple(<<PyNone, PyNone>>)

(* is_satisfiable's return value for res. *)
is_satisfiable_result(r) ==
    IF r = l_True THEN PyBool(TRUE) ELSE IF r = l_False THEN PyBool(FALSE) ELSE PyNone

---------------------------------------------------------------------------
(* msolve_selected: the body of one loop iteration.                        *)

(* Mutant: the banned literal is the one the model satisfies. *)
RECURSIVE ban_solution_loop_Satisfied(_, _, _, _)
ban_solution_loop_Satisfied(var_lits, model, i, ban) ==
    IF i > Len(var_lits) THEN ban
    ELSE IF var_lits[i].sign = FALSE
    THEN ban_solution_loop_Satisfied(var_lits, model, i + 1,
             Append(ban, Lit(var_lits[i].var, model[var_lits[i].var + 1] # l_True)))
    ELSE ban_solution_loop_Satisfied(var_lits, model, i + 1, ban)

(* The for loop building ban_solution from var_lits[i..] and the model. *)
RECURSIVE ban_solution_loop(_, _, _, _)
ban_solution_loop(var_lits, model, i, ban) ==
    IF i > Len(var_lits) THEN ban
    ELSE IF var_lits[i].sign = FALSE
    THEN ban_solution_loop(var_lits, model, i + 1,
             Append(ban, Lit(var_lits[i].var, model[var_lits[i].var + 1] = l_True)))
    ELSE ban_solution_loop(var_lits, model, i + 1, ban)

(* The solution msolve_selected memorizes, in the requested format. *)
msolve_solution(e, raw) == IF raw THEN get_raw_solution(e) ELSE get_solution(e)

(* The frame when the loop is entered. *)
msolve_frame(max_nr, var_lits, raw) ==
    [pc |-> "loop", max_nr_of_solutions |-> max_nr, var_lits |-> var_lits, raw |-> raw,
     solutions |-> <<>>, current_nr_of_solutions |-> 0, res |-> l_True, ban |-> NoBan]

(* The frame after an iteration whose solve answered l_True on engine s:   *)
(* the solution is appended; ban is the clause banned, if any.             *)
msolve_sat_frame(f, s, ban) ==
    [f EXCEPT !.current_nr_of_solutions = @ + 1, !.res = l_True,
              !.solutions = Append(@, msolve_solution(s, f.raw)), !.ban = ban]

(* Mutant: an unsatisfiable answer does not leave the loop. *)
msolve_unsat_frame_Continue(f) ==
    [f EXCEPT !.current_nr_of_solutions = @ + 1, !.res = l_True, !.ban = NoBan]

(* The frame after an iteration whose solve answered l_False: break. *)
msolve_unsat_frame(f) ==
    [f EXCEPT !.current_nr_of_solutions = @ + 1, !.res = l_False, !.ban = NoBan]

---------------------------------------------------------------------------
(* Bounds of the exploration.                                              *)

(* Committed clauses are capped: ingestion is disabled beyond this many. *)
MaxClauses == 4

(* The tighter cap of the specification that mixes all operations. *)
MaxMixedClauses == 2

(* The bulk paths are explored from states with fewer committed clauses   *)
(* than this.                                                              *)
MaxBulkBefore == 2

(* Committed XOR constraints are capped. *)
MaxXors == 1

(* Largest max_nr_of_solutions passed to msolve_selected. *)
MaxNrOfSolutions == 2

(* Literal values just outside the accepted range, and a non-integer. *)
TooLarge == CDiv(INT_MAX, 2) + 1
TooSmall == CDiv(INT_MIN, 2) - 1
NotAnInt == PyStr("a")

(* What a read past the end of a buffer may yield. *)
OobValues == {0, TooLarge}

(* Only the flat-buffer path reads a buffer. *)
OobFor(clauses) == IF clauses.t = "array" THEN OobValues ELSE {0}

---------------------------------------------------------------------------
(* The state after Solver(...): setup_solver made a fresh engine; limited  *)
(* says whether a time_limit or confl_limit was given.                     *)
setup_solver(limited) ==
    [nVars |-> 0, clauses |-> <<>>, xors |-> <<>>, model |-> <<>>, limited |-> limited,
     fault |-> FALSE]

NoFrame == [pc |-> "idle"]

(* The caller threads that share the Solver object. *)
Threads == {1, 2}

(* A thread running Python code outside the Solver's methods. *)
InPython == [pc |-> "python"]

Init ==
    /\ \E limited \in BOOLEAN : cmsat = setup_solver(limited)
    /\ call = [op |-> "Solver"]
    /\ ret = PyNone
    /\ res = NoRes
    /\ nSolves = 0
    /\ ms = NoFrame
    /\ GIL = 0
    /\ thread = [t \in Threads |-> InPython]

Idle == ms.pc = "idle"

(* A handler that makes no engine solve returns: a is [e, ret]. *)
Return(a) ==
    /\ Len(a.e.clauses) <= MaxClauses
    /\ Len(a.e.xors) <= MaxXors
    /\ cmsat' = a.e
    /\ ret' = a.ret
    /\ res' = NoRes
    /\ nSolves' = 0
    /\ UNCHANGED <<ms, GIL, thread>>

(* s.add_clause(clause) *)
AddClause(clause) ==
    /\ Idle
    /\ call' = [op |-> "add_clause", clause |-> clause]
    /\ Return(add_clause_handler(cmsat, clause))

(* s.add_clauses(clauses, max_var) *)
AddClauses(clauses, max_var, oob) ==
    /\ Idle
    /\ call' = [op |-> "add_clauses", clauses |-> clauses, max_var |-> max_var]
    /\ Return(add_clauses(cmsat, clauses, max_var, oob))

(* s.add_xor_clause(xor_clause, rhs) *)
AddXorClause(clause, rhs) ==
    /\ Idle
    /\ call' = [op |-> "add_xor_clause", xor_clause |-> clause, rhs |-> rhs]
    /\ Return(add_xor_clause_handler(cmsat, clause, rhs))

(* solve after the engine call s = [e, res]: the result tuple is built. *)
SolveAnswered(s) ==
    /\ cmsat' = s.e
    /\ res' = s.res
    /\ nSolves' = 1
    /\ ret' = solve_result(s.e, s.res)

(* solve after its assumptions were parsed into p: a parse error is        *)
(* raised, and otherwise the engine solves under the assumptions.          *)
SolveParsed(p) ==
    IF ~p.ok
    THEN /\ ret' = PyRaise(p.err, p.msg)
         /\ res' = NoRes
         /\ nSolves' = 0
         /\ UNCHANGED cmsat
    ELSE \E s \in solve_call(cmsat, p.lits) : SolveAnswered(s)

(* s.solve(assumptions) *)
Solve(assumptions) ==
    /\ Idle
    /\ call' = [op |-> "solve", assumptions |-> assumptions]
    /\ SolveParsed(solve_assumption_lits(assumptions, cmsat))
    /\ UNCHANGED <<ms, GIL, thread>>

(* s.is_satisfiable() *)
IsSatisfiable ==
    /\ Idle
    /\ call' = [op |-> "is_satisfiable"]
    /\ \E a \in solve_answers(cmsat, <<>>) :
          /\ cmsat' = solved(cmsat, a)
          /\ res' = a.res
          /\ nSolves' = 1
          /\ ret' = is_satisfiable_result(a.res)
    /\ UNCHANGED <<ms, GIL, thread>>

(* msolve_selected after var_selected was parsed into p: a parse error is  *)
(* raised; otherwise the loop is entered with res = l_True and no solution.*)
MsolveParsed(p, max_nr, raw) ==
    /\ cmsat' = p.e
    /\ IF ~p.ok
       THEN ret' = PyRaise(p.err, p.msg) /\ UNCHANGED ms
       ELSE ret' = PyNull /\ ms' = msolve_frame(max_nr, p.lits, raw)

(* s.msolve_selected(max_nr_of_solutions, var_selected, raw) *)
MsolveBegin(max_nr, var_selected, raw) ==
    /\ Idle
    /\ Len(cmsat.clauses) + Max(max_nr, 1) - 1 <= MaxClauses
    /\ call' = [op |-> "msolve_selected", max_nr_of_solutions |-> max_nr,
                var_selected |-> var_selected, raw |-> raw]
    /\ res' = NoRes
    /\ nSolves' = 0
    /\ MsolveParsed(parse_clause(cmsat, var_selected, <<>>), max_nr, raw)
    /\ UNCHANGED <<GIL, thread>>

(* Mutant: the loop runs once more than max_nr_of_solutions allows. *)
MsolveCond_OneMore ==
    ms.current_nr_of_solutions <= ms.max_nr_of_solutions /\ ms.res = l_True

(* The loop condition of msolve_selected. *)
MsolveCond ==
    ms.current_nr_of_solutions < ms.max_nr_of_solutions /\ ms.res = l_True

(* Mutant: an empty blocking clause is not committed. *)
MsolveSat_SkipEmptyBan(s, ban) ==
    IF ms.current_nr_of_solutions + 1 < ms.max_nr_of_solutions /\ ban # <<>>
    THEN cmsat' = add_clause(s, ban) /\ ms' = msolve_sat_frame(ms, s, ban)
    ELSE cmsat' = s /\ ms' = msolve_sat_frame(ms, s, NoBan)

(* An iteration whose solve answered l_True, leaving engine s: the         *)
(* solution is memorized and, when more iterations remain, the clause ban  *)
(* is committed.                                                           *)
MsolveSat(s, ban) ==
    IF ms.current_nr_of_solutions + 1 < ms.max_nr_of_solutions
    THEN cmsat' = add_clause(s, ban) /\ ms' = msolve_sat_frame(ms, s, ban)
    ELSE cmsat' = s /\ ms' = msolve_sat_frame(ms, s, NoBan)

(* One iteration of the loop after the engine answered a: l_True is        *)
(* memorized and banned, l_False ends the loop, l_Undef raises.            *)
MsolveAnswered(a) ==
    /\ res' = a.res
    /\ nSolves' = nSolves + 1
    /\ IF a.res = l_True
       THEN /\ MsolveSat(solved(cmsat, a), ban_solution_loop(ms.var_lits, a.model, 1, <<>>))
            /\ UNCHANGED ret
       ELSE IF a.res = l_False
       THEN /\ ms' = msolve_unsat_frame(ms)
            /\ cmsat' = solved(cmsat, a)
            /\ UNCHANGED ret
       ELSE /\ ms' = NoFrame
            /\ cmsat' = solved(cmsat, a)
            /\ ret' = PyRaise("SystemError", "Nothing to do => sol undef")

(* One iteration of the loop of msolve_selected. *)
MsolveIter ==
    /\ ms.pc = "loop"
    /\ MsolveCond
    /\ \E a \in solve_answers(cmsat, <<>>) : MsolveAnswered(a)
    /\ UNCHANGED <<call, GIL, thread>>

(* The loop is left and the list of solutions returned. *)
MsolveReturn ==
    /\ ms.pc = "loop"
    /\ ~MsolveCond
    /\ ret' = PyList(ms.solutions)
    /\ ms' = NoFrame
    /\ UNCHANGED <<cmsat, call, res, nSolves, GIL, thread>>

---------------------------------------------------------------------------
(* Spec: every operation of the Solver object, on small inputs.            *)

MixedClauseInputs == { PyInts(<<>>), PyInts(<<1>>), PyInts(<<3, -1>>), PyInts(<<2, 0>>) }

MixedBulkInputs ==
    { PyList(<<PyInts(<<1, -2>>), PyInts(<<3>>)>>),
      PyList(<<PyInts(<<2>>), PyList(<<PyInt(3), NotAnInt>>)>>) }

MixedArrayInputs == { PyArray("i", <<1, -2, 0, 3, 0>>), PyArray("l", <<2, 0, 3>>) }

MixedMaxVarInputs == {0, 3}

MixedXorInputs ==
    { <<PyInts(<<1, 2>>), PyBool(TRUE)>>, <<PyInts(<<3, -1>>), PyBool(FALSE)>>,
      <<PyInts(<<1>>), PyInt(1)>> }

(* Assumptions of solve; PyNull when the argument is omitted. *)
MixedAssumptionInputs == { PyNull, PyInts(<<-1>>), PyInts(<<1, 4>>) }

(* Arguments <<max_nr_of_solutions, var_selected, raw>> of msolve_selected. *)
MixedMsolveInputs ==
    { <<n, PyInts(<<1>>), TRUE>> : n \in (-1)..MaxNrOfSolutions }
    \cup { <<MaxNrOfSolutions, PyInts(<<2, -1>>), FALSE>>, <<1, PyInts(<<3, 0>>), TRUE>> }

MixedCap == Len(cmsat.clauses) < MaxMixedClauses

Next ==
    \/ \E clause \in MixedClauseInputs : MixedCap /\ AddClause(clause)
    \/ \E clauses \in MixedBulkInputs \cup MixedArrayInputs, max_var \in MixedMaxVarInputs :
          \E oob \in OobFor(clauses) : MixedCap /\ AddClauses(clauses, max_var, oob)
    \/ \E x \in MixedXorInputs : AddXorClause(x[1], x[2])
    \/ \E assumptions \in MixedAssumptionInputs : Solve(assumptions)
    \/ IsSatisfiable
    \/ \E x \in MixedMsolveInputs : MixedCap /\ MsolveBegin(x[1], x[2], x[3])
    \/ MsolveIter
    \/ MsolveReturn

Spec == Init /\ [][Next]_vars

---------------------------------------------------------------------------
(* SpecSolve: clauses are added one by one and solved, with and without    *)
(* assumptions.                                                            *)

(* The four clauses of the solve docstring, and the empty clause. *)
SolveClauseInputs ==
    { PyInts(<<1>>), PyInts(<<-2>>), PyInts(<<3>>), PyInts(<<-1, 2, 3>>), PyInts(<<>>) }

(* Assumptions of solve; PyNull when the argument is omitted. *)
SolveAssumptionInputs ==
    { PyNull, PyInts(<<-3>>), PyInts(<<2, -1>>), PyInts(<<1, 4>>), PyList(<<NotAnInt>>) }

NextSolve ==
    \/ \E clause \in SolveClauseInputs : AddClause(clause)
    \/ \E assumptions \in SolveAssumptionInputs : Solve(assumptions)

SpecSolve == Init /\ [][NextSolve]_vars

---------------------------------------------------------------------------
(* SpecBulk: the two bulk ingestion paths of add_clauses.                  *)

(* Clauses inside the lists handed to add_clauses: accepted ones, and ones *)
(* rejected after a literal that names a new variable.                     *)
BulkGoodItems == { PyInts(<<1, -2>>), PyInts(<<3>>), PyInts(<<>>) }

BulkBadItems == { PyInts(<<4, 0>>), PyList(<<PyInt(4), NotAnInt>>), PyInts(<<4, TooLarge>>) }

BulkInputs ==
    { PyList(<<>>), PyInt(7) }
    \cup { PyList(<<a>>) : a \in BulkGoodItems \cup BulkBadItems }
    \cup { PyList(<<a, b>>) : a \in BulkGoodItems, b \in BulkGoodItems \cup BulkBadItems }
    \cup { PyList(<<PyInts(<<1, -2>>), a, PyInts(<<3>>)>>) : a \in BulkBadItems }

(* Flat buffers handed to add_clauses. *)
ArrayInputs ==
    { PyArray("i", <<>>), PyArray("i", <<0>>), PyArray("l", <<1, -2, 0, 3, 0>>),
      PyArray("i", <<1, -2, 3>>), PyArray("q", <<1, 0, 2>>),
      PyArray("i", <<0, 1, -2, 0, 0, 3, 0>>), PyArray("i", <<3, 0, 4, TooLarge, 0>>),
      PyArray("i", <<0, 0>>), PyArray("i", <<3, 0, 0>>), PyArray("b", <<3, 0>>),
      PyArray("l", <<TooSmall, 0>>), PyArray("l", <<-3, 1, 0>>) }

(* Declared max_var of add_clauses (0 when omitted). *)
MaxVarInputs == {0, 2, 4}

(* A bulk call is explored from states with few committed clauses. *)
BulkCap == Len(cmsat.clauses) < MaxBulkBefore

NextBulk ==
    \/ \E clauses \in BulkInputs, max_var \in MaxVarInputs :
          BulkCap /\ AddClauses(clauses, max_var, 0)
    \/ \E clauses \in ArrayInputs, max_var \in MaxVarInputs, oob \in OobValues :
          BulkCap /\ AddClauses(clauses, max_var, oob)

SpecBulk == Init /\ [][NextBulk]_vars

---------------------------------------------------------------------------
(* SpecMsolve: enumeration over projections, between clauses and solves.   *)

MsolveClauseInputs == { PyInts(<<1, 2>>), PyInts(<<-1>>) }

(* Projections: empty, positive, mixed and negative only. *)
MsolveProjections ==
    { PyInts(<<>>), PyInts(<<1>>), PyInts(<<1, 2>>), PyInts(<<2, -1>>), PyInts(<<-1>>) }

(* Caps max_nr_of_solutions of the enumerations. *)
MsolveCaps == {1, MaxNrOfSolutions, MaxNrOfSolutions + 1}

(* Clauses are added only while fewer than this many are committed, the    *)
(* banned ones included.                                                   *)
MsolveCap == Len(cmsat.clauses) < MaxMixedClauses

NextMsolve ==
    \/ \E clause \in MsolveClauseInputs : MsolveCap /\ AddClause(clause)
    \/ Solve(PyNull)
    \/ \E n \in MsolveCaps, proj \in MsolveProjections, raw \in BOOLEAN :
          MsolveBegin(n, proj, raw)
    \/ MsolveIter
    \/ MsolveReturn

SpecMsolve == Init /\ [][NextMsolve]_vars

---------------------------------------------------------------------------
(* SpecCodec: single literals around the limits of the accepted range,     *)
(* through add_clause and through a flat buffer.                           *)

CodecValues ==
    { 0, 1, -1, 2, -2, CDiv(INT_MAX, 2), -CDiv(INT_MAX, 2), TooLarge, -TooLarge, TooSmall,
      INT_MAX, INT_MIN }

CodecCap == Len(cmsat.clauses) < MaxMixedClauses

NextCodec ==
    \/ \E v \in CodecValues : CodecCap /\ AddClause(PyInts(<<v>>))
    \/ \E v \in CodecValues, oob \in OobValues :
          CodecCap /\ AddClauses(PyArray("q", <<v, 0>>), 0, oob)

SpecCodec == Init /\ [][NextCodec]_vars

---------------------------------------------------------------------------
(* SpecThreads: two threads share one Solver object and call its solving   *)
(* methods.  A thread runs a method's code only while it holds the GIL;    *)
(* the methods hold no other lock.                                         *)

(* The solving methods with the number of loop iterations they may make. *)
ThreadCalls ==
    { <<"solve", 1>>, <<"is_satisfiable", 1>> }
    \cup { <<"msolve_selected", n>> : n \in 1..MaxNrOfSolutions }

(* The interpreter gives the free GIL to a thread, or takes it back        *)
(* between two bytecodes.                                                  *)
TakeGIL(t) ==
    /\ GIL = 0
    /\ thread[t].pc = "python"
    /\ GIL' = t
    /\ UNCHANGED <<cmsat, call, ret, res, nSolves, ms, thread>>

DropGIL(t) ==
    /\ GIL = t
    /\ thread[t].pc = "python"
    /\ GIL' = 0
    /\ UNCHANGED <<cmsat, call, ret, res, nSolves, ms, thread>>

(* The thread enters solve, is_satisfiable or msolve_selected and reaches  *)
(* the engine call; left is the number of iterations its loop may make.    *)
ThreadCall(t, op, left) ==
    /\ GIL = t
    /\ thread[t].pc = "python"
    /\ thread' = [thread EXCEPT ![t] = [pc |-> "called", op |-> op, left |-> left]]
    /\ UNCHANGED <<cmsat, call, ret, res, nSolves, ms, GIL>>

(* Py_BEGIN_ALLOW_THREADS: the GIL is released and the engine's solve      *)
(* starts.                                                                 *)
Py_BEGIN_ALLOW_THREADS(t) ==
    /\ GIL = t
    /\ thread[t].pc = "called"
    /\ GIL' = 0
    /\ thread' = [thread EXCEPT ![t].pc = "solving"]
    /\ UNCHANGED <<cmsat, call, ret, res, nSolves, ms>>

(* self->cmsat->solve() returns in thread t.  When another solve runs on   *)
(* the same engine the two race; any answer of the engine is possible.     *)
EngineSolved(t) ==
    /\ thread[t].pc = "solving"
    /\ \E a \in solve_answers(cmsat, <<>>) :
          /\ cmsat' = solved(cmsat, a)
          /\ thread' = [thread EXCEPT ![t] =
                           [pc |-> "solved", op |-> @.op, left |-> @.left, res |-> a.res]]
    /\ UNCHANGED <<call, ret, res, nSolves, ms, GIL>>

(* Py_END_ALLOW_THREADS: the thread waits for the GIL and takes it. *)
Py_END_ALLOW_THREADS(t) ==
    /\ thread[t].pc = "solved"
    /\ GIL = 0
    /\ GIL' = t
    /\ thread' = [thread EXCEPT ![t].pc = "answered"]
    /\ UNCHANGED <<cmsat, call, ret, res, nSolves, ms>>

(* The code after the engine call: msolve_selected loops while iterations  *)
(* are left and the answer was l_True; otherwise the method returns.       *)
ThreadContinue(t) ==
    /\ GIL = t
    /\ thread[t].pc = "answered"
    /\ thread' = [thread EXCEPT ![t] =
                     IF @.left > 1 /\ @.res = l_True
                     THEN [pc |-> "called", op |-> @.op, left |-> @.left - 1]
                     ELSE InPython]
    /\ UNCHANGED <<cmsat, call, ret, res, nSolves, ms, GIL>>

NextThreads ==
    \/ \E t \in Threads : TakeGIL(t)
    \/ \E t \in Threads : DropGIL(t)
    \/ \E t \in Threads, c \in ThreadCalls : ThreadCall(t, c[1], c[2])
    \/ \E t \in Threads : Py_BEGIN_ALLOW_THREADS(t)
    \/ \E t \in Threads : EngineSolved(t)
    \/ \E t \in Threads : Py_END_ALLOW_THREADS(t)
    \/ \E t \in Threads : ThreadContinue(t)

SpecThreads == Init /\ [][NextThreads]_vars

---------------------------------------------------------------------------
(* The handler runs to completion once called: the loop of msolve_selected *)
(* keeps iterating and returns when its condition fails.                   *)
SpecFair == Spec /\ WF_vars(MsolveIter) /\ WF_vars(MsolveReturn)

---------------------------------------------------------------------------
(* Vocabulary of the properties.                                           *)

(* The committed constraints and the size of the variable space. *)
Committed(e) == <<e.nVars, e.clauses, e.xors>>

(* The element is a literal the codec accepts. *)
IsLiteral(x) == IS_INT(x) /\ x.v # 0 /\ Abs(x.v) <= INT_MAX \div 2

(* The object is a sequence of accepted literals. *)
IsLiteralList(c) == PyIterable(c) /\ \A i \in 1..Len(c.v) : IsLiteral(c.v[i])

(* The clause a sequence of accepted literals stands for. *)
ClauseOf(c) == [i \in 1..Len(c.v) |-> Lit(Abs(c.v[i].v) - 1, c.v[i].v < 0)]

(* The largest one-based variable among the literals, 0 for none. *)
RECURSIVE LargestVar(_, _)
LargestVar(q, i) == IF i > Len(q) THEN 0 ELSE Max(Abs(q[i].v), LargestVar(q, i + 1))

PyFalseNone == PyTuple(<<PyBool(FALSE), PyNone>>)
PyNoneNone == PyTuple(<<PyNone, PyNone>>)

(* Every result a solve() without assumptions may give on engine e. *)
SolveOutcomes(e) == {solve_result(s.e, s.res) : s \in solve_call(e, <<>>)}

(* The instance of the solve docstring: Solver() without limits after      *)
(* add_clause([1]), add_clause([-2]), add_clause([3]), add_clause([-1,2,3]).*)
DocClauses ==
    << <<Lit(0, FALSE)>>, <<Lit(1, TRUE)>>, <<Lit(2, FALSE)>>,
       <<Lit(0, TRUE), Lit(1, FALSE), Lit(2, FALSE)>> >>

DocState(e) == e.clauses = DocClauses /\ e.xors = <<>> /\ ~e.limited

DocSolution ==
    PyTuple(<<PyBool(TRUE), PyTuple(<<PyNone, PyBool(TRUE), PyBool(FALSE), PyBool(TRUE)>>)>>)

---------------------------------------------------------------------------
(* C1: assumptions never persist.  A solve call, with or without           *)
(* assumptions, leaves the committed constraints as they were, so the set  *)
(* of results a following solve() may give is the one a preceding solve()  *)
(* could give.  On the docstring instance solve() is (True, (None, True,   *)
(* False, True)) and solve([-3]) is (False, None), in every order.         *)
C1_AssumptionsNeverPersist ==
    [][call'.op = "solve" =>
          /\ Committed(cmsat') = Committed(cmsat)
          /\ SolveOutcomes(cmsat') = SolveOutcomes(cmsat)
          /\ (DocState(cmsat) /\ call'.assumptions = PyNull => ret' = DocSolution)
          /\ (DocState(cmsat) /\ call'.assumptions = PyInts(<<-3>>) => ret' = PyFalseNone)
          /\ (DocState(cmsat) /\ call.op = "solve" /\ call.assumptions = PyInts(<<-3>>)
                 /\ call'.assumptions = PyNull => ret' = DocSolution)]_vars

(* solve([-3]) on the docstring instance answered (False, None). *)
C1_Witness ==
    /\ DocState(cmsat)
    /\ call = [op |-> "solve", assumptions |-> PyInts(<<-3>>)]
    /\ ret = PyFalseNone

---------------------------------------------------------------------------
(* The assumptions are accepted literals, one of them of a variable index  *)
(* >= nVars().                                                             *)
NamesUnknownVar(assumptions, e) ==
    /\ IsLiteralList(assumptions)
    /\ \E i \in 1..Len(assumptions.v) : Abs(assumptions.v[i].v) - 1 >= e.nVars

(* C2: solve with an assumption that names a variable index >= nVars()     *)
(* raises ValueError without any engine solve, and leaves the engine (its  *)
(* variable count and its committed clauses) as it was.                    *)
C2_UnknownAssumptionRejected ==
    [][(call'.op = "solve" /\ NamesUnknownVar(call'.assumptions, cmsat)) =>
          /\ ret'.t = "raise" /\ ret'.v = "ValueError"
          /\ nSolves' = 0 /\ res' = NoRes
          /\ cmsat' = cmsat]_vars

(* solve([1, 4]) was rejected for variable 4 after variable 1 passed. *)
C2_Witness ==
    /\ call = [op |-> "solve", assumptions |-> PyInts(<<1, 4>>)]
    /\ ret = PyRaise("ValueError", "variable not used in clauses")
    /\ cmsat.nVars \in 1..3
    /\ nSolves = 0

---------------------------------------------------------------------------
(* D is the dense rendering of the model of e. *)
IsDense(D, e) ==
    /\ D.t = "tuple"
    /\ Len(D.v) = e.nVars + 1
    /\ D.v[1] = PyNone
    /\ \A i \in 1..e.nVars :
          /\ e.model[i] = l_True => D.v[i + 1] = PyBool(TRUE)
          /\ e.model[i] = l_False => D.v[i + 1] = PyBool(FALSE)
          /\ e.model[i] = l_Undef => D.v[i + 1] = PyNone

(* C3: a solve that returns gives (True, D) exactly when the engine        *)
(* answered l_True, D being the dense rendering of its model; (False,      *)
(* None) exactly when it answered l_False; (None, None) exactly when it    *)
(* answered l_Undef.                                                       *)
C3_SolveResultFollowsEngine ==
    (call.op = "solve" /\ ret.t # "raise") =>
        /\ res \in lbool
        /\ ret.t = "tuple" /\ Len(ret.v) = 2
        /\ (ret.v[1] = PyBool(TRUE)) <=> (res = l_True)
        /\ res = l_True => IsDense(ret.v[2], cmsat)
        /\ (ret = PyFalseNone) <=> (res = l_False)
        /\ (ret = PyNoneNone) <=> (res = l_Undef)

(* A satisfiable solve whose model has a true, a false and an unassigned   *)
(* variable.                                                               *)
C3_Witness ==
    /\ call.op = "solve"
    /\ res = l_True
    /\ ret.v[1] = PyBool(TRUE)
    /\ \E i, j, k \in 1..cmsat.nVars :
          cmsat.model[i] = l_True /\ cmsat.model[j] = l_False /\ cmsat.model[k] = l_Undef

---------------------------------------------------------------------------
(* C4: the variable space only grows.  add_clause of a non-empty clause of *)
(* accepted literals whose largest variable is m ends with nb_vars() =     *)
(* max(old nb_vars(), m), and no operation ever lowers nb_vars().          *)
C4_VariableSpaceGrows ==
    [][/\ cmsat'.nVars >= cmsat.nVars
       /\ (call'.op = "add_clause" /\ IsLiteralList(call'.clause) /\ call'.clause.v # <<>>) =>
              /\ ret' = PyNone
              /\ cmsat'.nVars = Max(cmsat.nVars, LargestVar(call'.clause.v, 1))]_vars

(* add_clause([3, -1]) on a fresh solver ended with three variables. *)
C4_Witness ==
    /\ call = [op |-> "add_clause", clause |-> PyInts(<<3, -1>>)]
    /\ ret = PyNone
    /\ cmsat.clauses = << <<Lit(2, FALSE), Lit(0, TRUE)>> >>
    /\ cmsat.xors = <<>>
    /\ cmsat.nVars = 3

---------------------------------------------------------------------------
(* C5: add_clause([]) succeeds and commits the empty clause without        *)
(* growing the variable space; committed clauses stay committed, so from   *)
(* then on every solve() without assumptions returns (False, None),        *)
(* whatever is added afterwards.                                           *)
C5_EmptyClauseCommitted ==
    [][/\ (call'.op = "add_clause" /\ call'.clause = PyInts(<<>>)) =>
              /\ ret' = PyNone
              /\ cmsat'.clauses = Append(cmsat.clauses, <<>>)
              /\ cmsat'.nVars = cmsat.nVars
       /\ HasEmptyClause(cmsat) => HasEmptyClause(cmsat')
       /\ (HasEmptyClause(cmsat) /\ call'.op = "solve" /\ call'.assumptions = PyNull) =>
              ret' = PyFalseNone]_vars

(* solve() answered (False, None) on a solver whose first commitment was   *)
(* the empty clause and which took another clause afterwards.              *)
C5_Witness ==
    /\ Len(cmsat.clauses) >= 2
    /\ cmsat.clauses[1] = <<>>
    /\ cmsat.clauses[2] # <<>>
    /\ call = [op |-> "solve", assumptions |-> PyNull]
    /\ ret = PyFalseNone

---------------------------------------------------------------------------
(* The number of solve invocations and of returned solutions allowed. *)
SolutionCap(max_nr) == Max(max_nr, 0)

(* C10: msolve_selected invokes the engine's solve at most                 *)
(* max(max_nr_of_solutions, 0) times and returns at most that many         *)
(* solutions; with max_nr_of_solutions = 0 it returns the empty list       *)
(* without invoking solve; and the loop always ends.                       *)
C10_SolveCountBounded ==
    /\ [](call.op = "msolve_selected" =>
            /\ nSolves <= SolutionCap(call.max_nr_of_solutions)
            /\ ms.pc = "loop" => Len(ms.solutions) <= nSolves
            /\ ret.t = "list" =>
                  /\ Len(ret.v) <= SolutionCap(call.max_nr_of_solutions)
                  /\ call.max_nr_of_solutions = 0 => ret.v = <<>> /\ nSolves = 0)
    /\ (ms.pc = "loop") ~> (ms.pc = "idle")

(* msolve_selected reached its cap: as many solve invocations and          *)
(* solutions as max_nr_of_solutions.                                       *)
C10_Witness ==
    /\ call.op = "msolve_selected"
    /\ call.max_nr_of_solutions = MaxNrOfSolutions
    /\ ms.pc = "idle"
    /\ ret.t = "list"
    /\ Len(ret.v) = MaxNrOfSolutions
    /\ nSolves = MaxNrOfSolutions

---------------------------------------------------------------------------
(* Vocabulary of the bulk properties.                                      *)

(* The step is a call of add_clauses with a flat buffer of a supported     *)
(* typecode / with a sequence of clauses.                                  *)
FlatCall(c) ==
    c.op = "add_clauses" /\ c.clauses.t = "array" /\ c.clauses.typecode \in {"i", "l", "q"}

ListCall(c) == c.op = "add_clauses" /\ PyIterable(c.clauses)

(* The non-empty maximal runs of non-zero integers of buffer buf that a    *)
(* zero closes, from position i on; cur is the run under way.              *)
RECURSIVE RunsFrom(_, _, _)
RunsFrom(buf, i, cur) ==
    IF i > Len(buf) THEN <<>>
    ELSE IF buf[i] # 0 THEN RunsFrom(buf, i + 1, Append(cur, buf[i]))
    ELSE IF cur = <<>> THEN RunsFrom(buf, i + 1, <<>>)
    ELSE <<PyInts(cur)>> \o RunsFrom(buf, i + 1, <<>>)

(* The buffer is zero-terminated (or empty) and holds only zeros and       *)
(* accepted literals.                                                      *)
WellFormedBuffer(buf) ==
    /\ buf # <<>> => buf[Len(buf)] = 0
    /\ \A i \in 1..Len(buf) : Abs(buf[i]) <= INT_MAX \div 2

(* The clauses of a sequence of literal lists, and their largest variable. *)
ClausesOf(items) == [i \in 1..Len(items) |-> ClauseOf(items[i])]

RECURSIVE LargestVarOf(_, _)
LargestVarOf(items, i) ==
    IF i > Len(items) THEN 0
    ELSE Max(LargestVar(items[i].v, 1), LargestVarOf(items, i + 1))

(* The one-based position of the first clause of items that is not a list  *)
(* of accepted literals; 0 when there is none.                             *)
FirstRejected(items) ==
    IF \A i \in 1..Len(items) : IsLiteralList(items[i]) THEN 0
    ELSE CHOOSE k \in 1..Len(items) :
            ~IsLiteralList(items[k]) /\ \A i \in 1..(k - 1) : IsLiteralList(items[i])

---------------------------------------------------------------------------
(* C6: add_clauses with a non-empty flat buffer whose last element is not  *)
(* 0 raises ValueError and commits no clause of the buffer.                *)
C6_UnterminatedBufferRejected ==
    [][(FlatCall(call') /\ call'.clauses.v # <<>>
            /\ call'.clauses.v[Len(call'.clauses.v)] # 0) =>
          /\ ret' = PyRaise("ValueError", "last clause not terminated by zero")
          /\ cmsat'.clauses = cmsat.clauses
          /\ cmsat'.xors = cmsat.xors]_vars

(* The buffer [1, 0, 2] was rejected on a fresh solver: its terminated     *)
(* clause [1] was not committed either.                                    *)
C6_Witness ==
    /\ call.op = "add_clauses"
    /\ call.clauses = PyArray("q", <<1, 0, 2>>)
    /\ ret = PyRaise("ValueError", "last clause not terminated by zero")
    /\ cmsat.clauses = <<>>

---------------------------------------------------------------------------
(* C7: a well-formed zero-terminated flat buffer is equivalent to the      *)
(* list of its non-empty zero-delimited runs: the call ends in the state   *)
(* and with the result add_clauses of that list gives; empty runs add      *)
(* nothing; [1, -2, 0, 3, 0] commits {1, -2} and {3}.                      *)
C7_BufferEqualsListOfRuns ==
    [][(FlatCall(call') /\ WellFormedBuffer(call'.clauses.v)) =>
          LET runs == RunsFrom(call'.clauses.v, 1, <<>>) IN
          /\ [e |-> cmsat', ret |-> ret']
               = add_clauses(cmsat, PyList(runs), call'.max_var, 0)
          /\ ret' = PyNone
          /\ cmsat'.clauses = cmsat.clauses \o ClausesOf(runs)
          /\ call'.clauses.v = <<1, -2, 0, 3, 0>> =>
                cmsat'.clauses = cmsat.clauses \o
                    << <<Lit(0, FALSE), Lit(1, TRUE)>>, <<Lit(2, FALSE)>> >>]_vars

(* The buffer [0, 1, -2, 0, 0, 3, 0], with empty runs, committed {1, -2}   *)
(* and {3} on a fresh solver.                                              *)
C7_Witness ==
    /\ call.op = "add_clauses"
    /\ call.clauses = PyArray("i", <<0, 1, -2, 0, 0, 3, 0>>)
    /\ ret = PyNone
    /\ cmsat.clauses = << <<Lit(0, FALSE), Lit(1, TRUE)>>, <<Lit(2, FALSE)>> >>
    /\ cmsat.nVars = 3

---------------------------------------------------------------------------
(* C8: add_clauses over a list stops at the first rejected clause k: it    *)
(* raises, clauses 0 .. k-1 are committed, in order, and the variable      *)
(* space is the one those clauses (and the declared max_var) ask for:      *)
(* nothing is created for clause k or its successors.                      *)
C8_BulkStopsAtFirstRejected ==
    [][(ListCall(call') /\ FirstRejected(call'.clauses.v) # 0) =>
          LET k == FirstRejected(call'.clauses.v)
              before == SubSeq(call'.clauses.v, 1, k - 1) IN
          /\ ret'.t = "raise"
          /\ cmsat'.clauses = cmsat.clauses \o ClausesOf(before)
          /\ cmsat'.xors = cmsat.xors
          /\ cmsat'.nVars =
                Max(Max(cmsat.nVars, call'.max_var), LargestVarOf(before, 1))]_vars

(* add_clauses([[1, -2], [4, 0], [3]]) on a fresh solver raised with       *)
(* [1, -2] committed and two variables.                                    *)
C8_Witness ==
    /\ call.op = "add_clauses"
    /\ call.clauses = PyList(<<PyInts(<<1, -2>>), PyInts(<<4, 0>>), PyInts(<<3>>)>>)
    /\ call.max_var = 0
    /\ ret = PyRaise("ValueError", "non-zero integer expected")
    /\ cmsat.clauses = << <<Lit(0, FALSE), Lit(1, TRUE)>> >>
    /\ cmsat.nVars = 2

---------------------------------------------------------------------------
(* C9 as stated: for every max_var >= 0 the final state is the one of the  *)
(* same call without max_var.                                              *)
C9_MaxVarChangesNothing ==
    [][(call'.op = "add_clauses" /\ call'.max_var >= 0) =>
          Committed(cmsat') = Committed(add_clauses(cmsat, call'.clauses, 0, 0).e)]_vars

(* C9: add_clauses(clauses, max_var) commits the same clauses and gives    *)
(* the same result or error as the call without max_var, and ends with     *)
(* nb_vars() = max(max_var, nb_vars() of the call without max_var); the    *)
(* final states are equal exactly when max_var is not above that count.    *)
C9_MaxVarOnlyGrowsSpace ==
    [][call'.op = "add_clauses" =>
          LET without == add_clauses(cmsat, call'.clauses, 0, 0) IN
          /\ ret' = without.ret
          /\ cmsat'.clauses = without.e.clauses
          /\ cmsat'.xors = without.e.xors
          /\ cmsat'.nVars = Max(call'.max_var, without.e.nVars)
          /\ (Committed(cmsat') = Committed(without.e))
                <=> (call'.max_var <= without.e.nVars)]_vars

(* add_clauses([[1, -2]], max_var=4) on a fresh solver ended with four     *)
(* variables, two more than the clause asks for.                           *)
C9_Witness ==
    /\ call.op = "add_clauses"
    /\ call.clauses = PyList(<<PyInts(<<1, -2>>)>>)
    /\ call.max_var = 4
    /\ ret = PyNone
    /\ cmsat.clauses = << <<Lit(0, FALSE), Lit(1, TRUE)>> >>
    /\ cmsat.nVars = 4

---------------------------------------------------------------------------
(* Vocabulary of the enumeration properties.                               *)

(* The zero-based variables a projection names, whatever the polarity. *)
ProjectionVars(var_selected) ==
    {Abs(var_selected.v[i].v) - 1 : i \in 1..Len(var_selected.v)}

(* What a solution record holds for a variable: raw records have one slot  *)
(* per variable, dense ones a leading sentinel.                            *)
SlotOf(solution, var, raw) == solution.v[IF raw THEN var + 1 ELSE var + 2]

(* No two records agree on every variable of pv. *)
PairwiseDistinct(solutions, pv, raw) ==
    \A i, j \in 1..Len(solutions) :
        i < j => \E var \in pv : SlotOf(solutions[i], var, raw) # SlotOf(solutions[j], var, raw)

---------------------------------------------------------------------------
(* C11: the solutions one msolve_selected call gathers and returns differ  *)
(* pairwise in the assignment of at least one projection variable, for     *)
(* every clause set, projection (empty and negative entries included) and  *)
(* cap.                                                                    *)
C11_SolutionsPairwiseDistinct ==
    /\ ms.pc = "loop" =>
          PairwiseDistinct(ms.solutions, ProjectionVars(call.var_selected), ms.raw)
    /\ (call.op = "msolve_selected" /\ ret.t = "list") =>
          PairwiseDistinct(ret.v, ProjectionVars(call.var_selected), call.raw)

(* msolve_selected(3, [1, 2]) returned three solutions. *)
C11_Witness ==
    /\ call.op = "msolve_selected"
    /\ call.var_selected = PyInts(<<1, 2>>)
    /\ ret.t = "list"
    /\ Len(ret.v) = MaxNrOfSolutions + 1

---------------------------------------------------------------------------
(* The step is an iteration of msolve_selected whose solve was satisfiable. *)
SatIteration ==
    ms.pc = "loop" /\ call'.op = "msolve_selected" /\ nSolves' = nSolves + 1 /\ res' = l_True

(* The blocking clause as described: in projection order, one literal per  *)
(* positive entry whose variable has a definite value in the model, the    *)
(* one the model falsifies.                                                *)
(* The solution record the iteration appended tells the model.             *)
SlotDefinite(solution, var, raw) == SlotOf(solution, var, raw) \notin {PyNull, PyNone}

SlotTrue(solution, var, raw) ==
    SlotOf(solution, var, raw) = (IF raw THEN PyInt(var + 1) ELSE PyBool(TRUE))

RECURSIVE DefiniteBan(_, _, _, _)
DefiniteBan(var_lits, solution, raw, i) ==
    IF i > Len(var_lits) THEN <<>>
    ELSE IF ~var_lits[i].sign /\ SlotDefinite(solution, var_lits[i].var, raw)
    THEN <<Lit(var_lits[i].var, SlotTrue(solution, var_lits[i].var, raw))>>
         \o DefiniteBan(var_lits, solution, raw, i + 1)
    ELSE DefiniteBan(var_lits, solution, raw, i + 1)

(* C12 as stated: after a satisfiable iteration with more iterations to    *)
(* come exactly one clause is committed, holding one falsified literal per *)
(* positive projection entry with a definite value and nothing for         *)
(* negative entries or unassigned variables; after the iteration that      *)
(* reaches the cap nothing is committed.                                   *)
C12_BlockingClauseShape ==
    [][SatIteration =>
          IF ms.current_nr_of_solutions + 1 < ms.max_nr_of_solutions
          THEN cmsat'.clauses =
                  Append(cmsat.clauses,
                         DefiniteBan(ms.var_lits, ms'.solutions[Len(ms'.solutions)], ms.raw, 1))
          ELSE cmsat'.clauses = cmsat.clauses]_vars

---------------------------------------------------------------------------
(* The running call of msolve_selected makes a step. *)
MsolveStep == ms.pc = "loop" /\ call'.op = "msolve_selected"

(* C13: msolve_selected ends on the first engine answer that is not        *)
(* satisfiable.  After l_False no further solve is made and the call       *)
(* returns, without error, the list of the solutions gathered so far, in   *)
(* the order found (empty when the first solve was unsatisfiable); after   *)
(* l_Undef it raises at once and returns no list.                          *)
C13_EndsOnFirstNonSat ==
    [][MsolveStep =>
          /\ (nSolves' = nSolves + 1 /\ res' = l_True) =>
                /\ Len(ms'.solutions) = Len(ms.solutions) + 1
                /\ SubSeq(ms'.solutions, 1, Len(ms.solutions)) = ms.solutions
          /\ (nSolves' = nSolves + 1 /\ res' = l_False) =>
                /\ ms'.pc = "loop" /\ ms'.solutions = ms.solutions
                /\ ret'.t # "raise"
          /\ (nSolves' = nSolves + 1 /\ res' = l_Undef) =>
                /\ ms'.pc = "idle"
                /\ ret'.t = "raise" /\ ret'.v = "SystemError"
          /\ res = l_False =>
                /\ nSolves' = nSolves
                /\ ms'.pc = "idle"
                /\ ret' = PyList(ms.solutions)
                /\ Len(ret'.v) = nSolves - 1]_vars

(* msolve_selected returned the one solution it found before the engine    *)
(* answered l_False.                                                       *)
C13_Witness ==
    /\ call.op = "msolve_selected"
    /\ ms.pc = "idle"
    /\ res = l_False
    /\ nSolves = 2
    /\ ret.t = "list"
    /\ Len(ret.v) = 1

---------------------------------------------------------------------------
(* The sparse rendering as described: one signed integer per assigned      *)
(* variable from variable i on, nothing for an unassigned one.             *)
RECURSIVE SparseOf(_, _)
SparseOf(model, i) ==
    IF i > Len(model) THEN <<>>
    ELSE IF model[i] = l_True THEN <<PyInt(i)>> \o SparseOf(model, i + 1)
    ELSE IF model[i] = l_False THEN <<PyInt(-i)>> \o SparseOf(model, i + 1)
    ELSE SparseOf(model, i + 1)

(* The number of assigned variables of a model. *)
NrAssigned(model) == Cardinality({i \in 1..Len(model) : model[i] # l_Undef})

(* The raw record and the dense record tell the same assignment: dense     *)
(* slot i is true / false iff raw contains +i / -i.                        *)
RawAgreesWithDense(rawrec, dense) ==
    \A i \in 1..(Len(dense.v) - 1) :
        /\ (dense.v[i + 1] = PyBool(TRUE)) <=> (\E k \in 1..Len(rawrec.v) : rawrec.v[k] = PyInt(i))
        /\ (dense.v[i + 1] = PyBool(FALSE)) <=> (\E k \in 1..Len(rawrec.v) : rawrec.v[k] = PyInt(-i))

(* C14 as stated: the raw record a satisfiable iteration appends holds     *)
(* exactly one signed integer per assigned variable of the model and       *)
(* nothing for unassigned ones, so its length is the number of assigned    *)
(* variables, and it agrees with the dense rendering of the same model.    *)
C14_RawIsSparse ==
    [][(SatIteration /\ ms.raw /\ Len(cmsat'.model) = cmsat'.nVars) =>
          LET rawrec == ms'.solutions[Len(ms'.solutions)] IN
          /\ rawrec = PyTuple(SparseOf(cmsat'.model, 1))
          /\ Len(rawrec.v) = NrAssigned(cmsat'.model)
          /\ RawAgreesWithDense(rawrec, get_solution(cmsat'))]_vars

---------------------------------------------------------------------------
(* |v| > INT_MAX/2, without negating v. *)
OutOfRange(v) == v > INT_MAX \div 2 \/ v < -(INT_MAX \div 2)

(* The signed integer a literal stands for. *)
Encode(lit) == IF lit.sign THEN -(lit.var + 1) ELSE lit.var + 1

(* The call decoded the single literal v and committed it: variable        *)
(* |v| - 1, polarity v < 0, and encoding it gives v back.                  *)
DecodedAs(v) ==
    /\ ret' = PyNone
    /\ Len(cmsat'.clauses) = Len(cmsat.clauses) + 1
    /\ LET lit == cmsat'.clauses[Len(cmsat'.clauses)][1] IN
          /\ lit.var = (IF v < 0 THEN -v ELSE v) - 1
          /\ lit.sign = (v < 0)
          /\ Encode(lit) = v

RejectedValue == ret'.t = "raise" /\ ret'.v = "ValueError" /\ cmsat'.clauses = cmsat.clauses

(* C15 as stated: decoding v fails with a value error exactly when v = 0   *)
(* (sequence path) or |v| > INT_MAX/2, in the sequence path and in the     *)
(* flat-buffer path alike, and otherwise gives variable |v| - 1 and        *)
(* polarity v < 0, which encode back to v.                                 *)
C15_DecodeRange ==
    [][/\ (call'.op = "add_clause" /\ Len(call'.clause.v) = 1) =>
              LET v == call'.clause.v[1].v IN
              IF v = 0 \/ OutOfRange(v) THEN RejectedValue ELSE DecodedAs(v)
       /\ (call'.op = "add_clauses" /\ call'.clauses.t = "array"
               /\ call'.clauses.v[1] # 0) =>
              LET v == call'.clauses.v[1] IN
              IF OutOfRange(v) THEN RejectedValue ELSE DecodedAs(v)]_vars

---------------------------------------------------------------------------
(* The threads inside the engine's solve. *)
Solving == {t \in Threads : thread[t].pc = "solving"}

(* C16 as stated: no two engine solve calls on the same instance are in    *)
(* progress at the same time.                                              *)
C16_NoConcurrentSolve == Cardinality(Solving) <= 1

---------------------------------------------------------------------------
(* C17: every constraint handed to the engine names only variables that    *)
(* exist when it is handed over (the engine never saw an unknown variable, *)
(* from add_clause, add_clauses, add_xor_clause or a blocking clause),     *)
(* every assumption a solve passed on names an existing variable, and      *)
(* every model index msolve_selected reads for a blocking clause is below  *)
(* nVars().                                                                *)
C17_OnlyKnownVariables ==
    /\ ~cmsat.fault
    /\ \A i \in 1..Len(cmsat.clauses) : \A j \in 1..Len(cmsat.clauses[i]) :
          cmsat.clauses[i][j].var < cmsat.nVars
    /\ \A i \in 1..Len(cmsat.xors) : \A j \in 1..Len(cmsat.xors[i].vars) :
          cmsat.xors[i].vars[j] < cmsat.nVars
    /\ ms.pc = "loop" =>
          \A i \in 1..Len(ms.var_lits) : ms.var_lits[i].var < cmsat.nVars
    /\ (call.op = "solve" /\ ret.t # "raise" /\ call.assumptions # PyNull) =>
          \A i \in 1..Len(call.assumptions.v) : Abs(call.assumptions.v[i].v) - 1 < cmsat.nVars

(* msolve_selected committed a blocking clause on an engine that holds an  *)
(* XOR constraint and a clause.                                            *)
C17_Witness ==
    /\ ms.pc = "loop"
    /\ ms.ban # NoBan
    /\ ms.ban # <<>>
    /\ Len(cmsat.xors) = 1
    /\ Len(cmsat.clauses) >= 2
    /\ ~cmsat.fault

---------------------------------------------------------------------------
(* The XOR input is a list of accepted literals, one of them negated. *)
HasNegatedEntry(clause) ==
    IsLiteralList(clause) /\ \E i \in 1..Len(clause.v) : clause.v[i].v < 0

(* C18 as stated: add_xor_clause with a negated literal in its input       *)
(* raises a value error, commits no XOR constraint and leaves nb_vars() as *)
(* it was, whatever positive entries precede the negated one.              *)
C18_RejectedXorLeavesNoTrace ==
    [][(call'.op = "add_xor_clause" /\ HasNegatedEntry(call'.xor_clause)
            /\ call'.rhs.t = "bool") =>
          /\ ret'.t = "raise" /\ ret'.v = "ValueError"
          /\ cmsat'.xors = cmsat.xors
          /\ cmsat'.nVars = cmsat.nVars]_vars

---------------------------------------------------------------------------
(* The zero-based positions the scan of the call's buffer reads. *)
ScanReads(e, c) ==
    _add_clauses_from_array(add_clauses_pregrow(e, c.max_var), c.clauses.v, 0).reads

(* C19 as stated: scanning a non-empty zero-terminated buffer of length n  *)
(* reads only positions 0 .. n-1, the reads of the loops' increment steps  *)
(* included.                                                               *)
C19_ScanStaysInBuffer ==
    [][(FlatCall(call') /\ call'.clauses.v # <<>>
            /\ call'.clauses.v[Len(call'.clauses.v)] = 0) =>
          ScanReads(cmsat, call') \subseteq 0..(Len(call'.clauses.v) - 1)]_vars

---------------------------------------------------------------------------
(* The decoded projection holds no positive literal. *)
NoPositiveEntry(var_lits) == \A i \in 1..Len(var_lits) : var_lits[i].sign

(* C20: with a projection without positive literal, a cap of at least 2    *)
(* and a satisfiable first solve, the blocking clause is empty and is      *)
(* committed all the same; the call returns exactly one solution; and the  *)
(* empty clause stays, so every later solve() and every later solve of     *)
(* msolve_selected on the instance answers unsatisfiable.                  *)
C20_EmptyBlockingClausePoisons ==
    [][/\ (SatIteration /\ NoPositiveEntry(ms.var_lits)
              /\ ms.current_nr_of_solutions = 0 /\ ms.max_nr_of_solutions >= 2) =>
             cmsat'.clauses = Append(cmsat.clauses, <<>>)
       /\ (MsolveStep /\ ms'.pc = "idle" /\ ret'.t = "list" /\ NoPositiveEntry(ms.var_lits)
              /\ ms.max_nr_of_solutions >= 2 /\ Len(ret'.v) >= 1) =>
             Len(ret'.v) = 1 /\ HasEmptyClause(cmsat')
       /\ HasEmptyClause(cmsat) => HasEmptyClause(cmsat')
       /\ (HasEmptyClause(cmsat) /\ call'.op = "solve") => ret' = PyFalseNone
       /\ (HasEmptyClause(cmsat) /\ MsolveStep /\ nSolves' = nSolves + 1) =>
             res' = l_False]_vars

(* solve() answered (False, None) on an instance whose only clauses are    *)
(* the caller's satisfiable [1, 2] and the empty blocking clause of an     *)
(* enumeration.                                                            *)
C20_Witness ==
    /\ call = [op |-> "solve", assumptions |-> PyNull]
    /\ ret = PyFalseNone
    /\ cmsat.clauses = << <<Lit(0, FALSE), Lit(1, FALSE)>>, <<>> >>

=============================================================================
